---------------------------- MODULE Spec2Model ----------------------------
(***************************************************************************)
(* Consensus polishing core: the Mutation algebra (Mutation.cpp) and the   *)
(* Polish driver (Polish.cpp) on top of the Integrator (Integrator.h).     *)
(*                                                                         *)
(* A std::string is a sequence of one-character strings.  A Mutation is a  *)
(* record [type, start, length, bases]; a ScoredMutation adds Score (and   *)
(* the bookkeeping field pass, the number of the scoring pass that pushed  *)
(* it).  size_t and int values stay far below their widths here.           *)
(***************************************************************************)
EXTENDS Integers, Sequences, FiniteSets, TLC

VARIABLES
    pc,         \* position of the running function
    arg,        \* arguments of a stand-alone call (Translate, ApplyMutations, BestMutations)
    ret,        \* its return value
    ai,         \* the Integrator: fwdTpl, the number validEvals of valid Evaluators,
                \* and what their LL has shown so far (known, peaks, thrown)
    cfg,        \* the PolishConfig
    polish,     \* the locals of Polish: muts, history, oldTpl, result, i, scoredMuts,
                \* mutationsTested, hasNewInvalidEvaluator, LL, it (the position of
                \* the range-for of line 354 in muts)
    obs         \* record of the rounds, kept for the properties

vars == <<pc, arg, ret, ai, cfg, polish, obs>>

polishVars == <<ai, cfg, polish, obs>>

\* the Integrator and Polish variables while a stand-alone call runs
NoPolish == ai = <<>> /\ cfg = <<>> /\ polish = <<>> /\ obs = <<>>

-----------------------------------------------------------------------------
(* Bounds of the stand-alone calls *)

MaxLen == 3      \* longest template string handed to ApplyMutations / Translate
MaxMuts == 2     \* longest mutation list handed to ApplyMutations
MaxCands == 3    \* longest candidate list handed to BestMutations
MaxSep == 2      \* largest separation handed to BestMutations
MaxPos == 2      \* largest Start of a BestMutations candidate

HaploidBases == <<"A", "C">>   \* the bases the model draws from (a prefix of A, C, G, T)

Range(s) == {s[k] : k \in DOMAIN s}

Min(a, b) == IF a < b THEN a ELSE b

Max(a, b) == IF a < b THEN b ELSE a

Strings(n) == UNION {[1..k -> Range(HaploidBases)] : k \in 0..n}

-----------------------------------------------------------------------------
(* Mutation.cpp / Mutation.h *)

None == [type |-> "none"]

Deletion(start, length) ==
    [type |-> "DELETION", start |-> start, length |-> length, bases |-> <<>>]

Insertion(start, bases) ==
    [type |-> "INSERTION", start |-> start, length |-> 0, bases |-> bases]

Substitution(start, bases) ==
    [type |-> "SUBSTITUTION", start |-> start, length |-> Len(bases), bases |-> bases]

IsInsertion(m) == m.type = "INSERTION"

IsDeletion(m) == m.type = "DELETION"

IsSubstitution(m) == m.type = "SUBSTITUTION"

Start(m) == m.start

End(m) == m.start + m.length

LengthDiff(m) ==
    IF IsInsertion(m) THEN Len(m.bases)
    ELSE IF IsDeletion(m) THEN 0 - m.length
    ELSE 0

\* bool -> size_t conversion of IsInsertion() inside arithmetic
AsSize(b) == IF b THEN 1 ELSE 0

TypeRank(m) == IF IsInsertion(m) THEN 0 ELSE IF IsSubstitution(m) THEN 1 ELSE 2

SiteComparer(lhs, rhs) ==
    \/ Start(lhs) < Start(rhs)
    \/ Start(lhs) = Start(rhs) /\ End(lhs) < End(rhs)
    \/ Start(lhs) = Start(rhs) /\ End(lhs) = End(rhs) /\ TypeRank(lhs) < TypeRank(rhs)

Mutation(sm) ==
    [type |-> sm.type, start |-> sm.start, length |-> sm.length, bases |-> sm.bases]

WithScore(m, score, pass) ==
    [type |-> m.type, start |-> m.start, length |-> m.length, bases |-> m.bases,
     Score |-> score, pass |-> pass]

ScoreComparer(lhs, rhs) == lhs.Score < rhs.Score

\* std::string::substr(pos, n)
Substr(s, pos, n) == SubSeq(s, pos + 1, Min(pos + n, Len(s)))

\* Translate without the IsInsertion() term on the window's right edge
TranslateClosedRight(m, start, length) ==
    IF End(m) + AsSize(IsInsertion(m)) < start \/ start + length <= Start(m)
    THEN None
    ELSE LET newStart == Max(Start(m), start)
             newLen == Min(End(m), start + length) - newStart
         IN  IF IsInsertion(m) THEN Insertion(newStart - start, m.bases)
             ELSE IF newLen = 0 THEN None
             ELSE IF IsDeletion(m) THEN Deletion(newStart - start, newLen)
             ELSE Substitution(newStart - start,
                               Substr(m.bases, newStart - Start(m), newLen))

Translate(m, start, length) ==
    IF End(m) + AsSize(IsInsertion(m)) < start
       \/ start + length + AsSize(IsInsertion(m)) <= Start(m)
    THEN None
    ELSE LET newStart == Max(Start(m), start)
             newLen == Min(End(m), start + length) - newStart
         IN  IF IsInsertion(m) THEN Insertion(newStart - start, m.bases)
             ELSE IF newLen = 0 THEN None
             ELSE IF IsDeletion(m) THEN Deletion(newStart - start, newLen)
             ELSE Substitution(newStart - start,
                               Substr(m.bases, newStart - Start(m), newLen))

\* std::sort(begin, end, Mutation::SiteComparer): every ordering of the
\* elements that the comparer accepts (the order of equivalent elements is
\* unspecified)
SiteSorted(muts) ==
    {p \in {[k \in DOMAIN muts |-> muts[f[k]]] : f \in Permutations(DOMAIN muts)} :
        \A k \in 1..(Len(p) - 1) : ~SiteComparer(p[k + 1], p[k])}

\* std::string::insert(pos, str)
StrInsert(s, pos, str) == SubSeq(s, 1, pos) \o str \o SubSeq(s, pos + 1, Len(s))

\* std::string::replace(pos, len, str)
StrReplace(s, pos, len, str) ==
    SubSeq(s, 1, pos) \o str \o SubSeq(s, pos + Min(len, Len(s) - pos) + 1, Len(s))

\* the reverse loop of ApplyMutations over the sorted list
RECURSIVE ApplyReverse(_, _, _)
ApplyReverse(newTpl, sorted, k) ==
    IF k = 0 THEN newTpl
    ELSE LET it == sorted[k]
         IN  ApplyReverse(IF IsInsertion(it)
                          THEN StrInsert(newTpl, Start(it), it.bases)
                          ELSE StrReplace(newTpl, Start(it), it.length, it.bases),
                          sorted, k - 1)

\* the value ApplyMutations returns once *muts has been sorted in place
ApplyMutations(oldTpl, sorted) ==
    IF sorted = <<>> \/ oldTpl = <<>> THEN oldTpl
    ELSE ApplyReverse(oldTpl, sorted, Len(sorted))

-----------------------------------------------------------------------------
(* Stand-alone calls of Mutation::Translate *)

\* well-formed mutations on a template of at most n bases
MutationsWithin(n) ==
    {Insertion(s, b) : s \in 0..n, b \in Strings(2) \ {<<>>}}
    \cup {Deletion(s, l) : s \in 0..n, l \in 1..n}
    \cup {Substitution(s, b) : s \in 0..n, b \in Strings(2) \ {<<>>}}

InitTranslate ==
    /\ pc = "Translate"
    /\ arg \in [mut : MutationsWithin(MaxLen + 1), start : 0..MaxLen, length : 0..MaxLen]
    /\ ret = None
    /\ NoPolish

CallTranslate ==
    /\ pc = "Translate"
    /\ ret' = Translate(arg.mut, arg.start, arg.length)
    /\ pc' = "returned"
    /\ UNCHANGED <<arg, polishVars>>

NextTranslate == CallTranslate

SpecTranslate == InitTranslate /\ [][NextTranslate]_vars


-----------------------------------------------------------------------------
(* Stand-alone calls of ApplyMutations on a string and a mutation list *)

\* mutations that lie inside a template of n bases
InRange(n) ==
    {Insertion(s, b) : s \in 0..n, b \in Strings(1) \ {<<>>}}
    \cup {m \in {Deletion(s, l) : s \in 0..n, l \in 1..n} : End(m) <= n}
    \cup {m \in {Substitution(s, b) : s \in 0..n, b \in Strings(2) \ {<<>>}} : End(m) <= n}

SeqsUpTo(S, n) == UNION {[1..k -> S] : k \in 0..n}

InitApply ==
    /\ pc = "ApplyMutations"
    /\ \E oldTpl \in Strings(MaxLen) :
          arg \in [oldTpl : {oldTpl}, muts : SeqsUpTo(InRange(Len(oldTpl)), MaxMuts)]
    /\ ret = <<>>
    /\ NoPolish

\* the whole call: the in-place sort of *muts and the returned string
CallApplyMutations ==
    /\ pc = "ApplyMutations"
    /\ \E sorted \in SiteSorted(arg.muts) :
          /\ arg' = [arg EXCEPT !.muts = sorted]
          /\ ret' = ApplyMutations(arg.oldTpl, sorted)
    /\ pc' = "returned"
    /\ UNCHANGED polishVars

NextApply == CallApplyMutations

SpecApply == InitApply /\ [][NextApply]_vars

-----------------------------------------------------------------------------
(* Claims about Mutation::Translate *)

\* the mutation touches the window [start, start + length); an insertion
\* touches it when its Start lies in [start, start + length]
IntersectsWindow(m, start, length) ==
    IF IsInsertion(m)
    THEN start <= Start(m) /\ Start(m) <= start + length
    ELSE Max(Start(m), start) < Min(End(m), start + length)

\* the part of the mutation inside the window, in window coordinates
Restriction(m, start, length) ==
    LET newStart == Max(Start(m), start)
        newEnd == Min(End(m), start + length)
    IN  IF IsInsertion(m) THEN Insertion(newStart - start, m.bases)
        ELSE IF IsDeletion(m) THEN Deletion(newStart - start, newEnd - newStart)
        ELSE Substitution(newStart - start,
                          SubSeq(m.bases, newStart - Start(m) + 1, newEnd - Start(m)))

\* C9: Translate(start, length) returns none exactly when the mutation does
\* not intersect the window (an insertion: exactly when its Start is outside
\* [start, start + length]); otherwise it returns the same type of mutation
\* at max(Start, start) - start restricted to the window, and never a
\* deletion or substitution of length 0.
C9_TranslateIsRestriction ==
    pc = "returned" /\ "mut" \in DOMAIN arg =>
        /\ (ret = None) <=> ~IntersectsWindow(arg.mut, arg.start, arg.length)
        /\ ret # None =>
              /\ ret = Restriction(arg.mut, arg.start, arg.length)
              /\ ~IsInsertion(ret) => ret.length > 0

\* the mutation lies inside a template of L bases
Contained(m, L) == IF IsInsertion(m) THEN Start(m) <= L ELSE End(m) <= L

\* C10: Translate(0, L) of a mutation contained in a template of length L is
\* the mutation itself (type, start, length and bases).
C10_TranslateWholeTemplate ==
    pc = "returned" /\ "mut" \in DOMAIN arg /\ arg.start = 0
      /\ Contained(arg.mut, arg.length) => ret = arg.mut

\* an insertion at the very end of the template, and a substitution that
\* reaches it, both translated onto the whole template
C10_Witness ==
    /\ pc = "returned" /\ "mut" \in DOMAIN arg /\ arg.start = 0 /\ arg.length = MaxLen
    /\ IsInsertion(arg.mut) /\ Start(arg.mut) = arg.length
    /\ ret = arg.mut

-----------------------------------------------------------------------------
(* Claims about ApplyMutations *)

\* two mutations overlap or touch: an insertion takes the site it is in front of
Overlaps(a, b) ==
    /\ Start(a) < End(b) + AsSize(IsInsertion(b))
    /\ Start(b) < End(a) + AsSize(IsInsertion(a))

NonOverlapping(muts) ==
    \A i, j \in DOMAIN muts : i # j => ~Overlaps(muts[i], muts[j])

\* what the template contributes at position pos once every mutation of the
\* list is applied at its own coordinate: the bases inserted in front of
\* pos, then the base at pos unless deleted or substituted
PieceAt(tpl, muts, pos) ==
    LET ins == {m \in Range(muts) : IsInsertion(m) /\ Start(m) = pos}
        cover == {m \in Range(muts) :
                    ~IsInsertion(m) /\ Start(m) <= pos /\ pos < End(m)}
    IN  (IF ins = {} THEN <<>> ELSE (CHOOSE m \in ins : TRUE).bases)
        \o (IF pos >= Len(tpl) THEN <<>>
            ELSE IF cover = {} THEN <<tpl[pos + 1]>>
            ELSE LET m == CHOOSE m \in cover : TRUE
                 IN  IF IsDeletion(m) THEN <<>> ELSE <<m.bases[pos - Start(m) + 1]>>)

RECURSIVE AllApplied(_, _, _)
AllApplied(tpl, muts, pos) ==
    IF pos > Len(tpl) THEN <<>>
    ELSE PieceAt(tpl, muts, pos) \o AllApplied(tpl, muts, pos + 1)

RECURSIVE SumLengthDiff(_, _)
SumLengthDiff(muts, k) ==
    IF k = 0 THEN 0 ELSE LengthDiff(muts[k]) + SumLengthDiff(muts, k - 1)

\* C1: for in-range, pairwise non-overlapping mutations ApplyMutations
\* returns the template with every mutation applied at its original
\* coordinate (length |tpl| + sum of LengthDiff), whatever the order of the
\* input list.
C1_ApplyAllAnyOrder ==
    pc = "returned" /\ "oldTpl" \in DOMAIN arg /\ NonOverlapping(arg.muts) =>
        /\ ret = AllApplied(arg.oldTpl, arg.muts, 0)
        /\ Len(ret) = Len(arg.oldTpl) + SumLengthDiff(arg.muts, Len(arg.muts))
        /\ \A f \in Permutations(DOMAIN arg.muts) :
              \A sorted \in SiteSorted([k \in DOMAIN arg.muts |-> arg.muts[f[k]]]) :
                  ApplyMutations(arg.oldTpl, sorted) = ret

\* the same statement for templates of at least one base
ApplyAllAnyOrderNonEmpty ==
    arg.oldTpl # <<>> => C1_ApplyAllAnyOrder

-----------------------------------------------------------------------------
(* Polish.cpp: BestMutations *)

\* std::max_element(begin, end, ScoreComparer): the first element that no
\* other element exceeds
MaxElement(scoredMuts) ==
    CHOOSE k \in DOMAIN scoredMuts :
        /\ \A j \in DOMAIN scoredMuts : ~ScoreComparer(scoredMuts[k], scoredMuts[j])
        /\ \A j \in 1..(k - 1) : ScoreComparer(scoredMuts[j], scoredMuts[k])

\* the separation window [start, end) of lines 193-194
WindowStart(mut, separation) ==
    IF separation < Start(mut) THEN Start(mut) - separation ELSE 0

WindowEnd(mut, separation) == End(mut) + separation

\* the remove_if predicate of line 197
InWindow(m, start, end) == start <= End(m) /\ Start(m) < end

\* the window without the separation on its right side
BestMutationsIterationNoSeparation(scoredMuts, result, separation) ==
    LET mut == scoredMuts[MaxElement(scoredMuts)]
        start == WindowStart(mut, separation)
        end == End(mut) + 1
        Kept(m) == ~InWindow(m, start, end)
    IN  [scoredMuts |-> SelectSeq(scoredMuts, Kept),
         result |-> Append(result, Mutation(mut)),
         picked |-> mut]

\* the first candidate instead of the highest-scoring one
BestMutationsIterationFirst(scoredMuts, result, separation) ==
    LET mut == scoredMuts[1]
        start == WindowStart(mut, separation)
        end == WindowEnd(mut, separation)
        Kept(m) == ~InWindow(m, start, end)
    IN  [scoredMuts |-> SelectSeq(scoredMuts, Kept),
         result |-> Append(result, Mutation(mut)),
         picked |-> mut]

\* one iteration of the while loop (lines 187-198)
BestMutationsIteration(scoredMuts, result, separation) ==
    LET mut == scoredMuts[MaxElement(scoredMuts)]
        start == WindowStart(mut, separation)
        end == WindowEnd(mut, separation)
        Kept(m) == ~InWindow(m, start, end)
    IN  [scoredMuts |-> SelectSeq(scoredMuts, Kept),
         result |-> Append(result, Mutation(mut)),
         picked |-> mut]

\* the whole loop, for separation > 0
RECURSIVE BestMutations(_, _, _)
BestMutations(scoredMuts, result, separation) ==
    IF scoredMuts = <<>> THEN result
    ELSE LET step == BestMutationsIteration(scoredMuts, result, separation)
         IN  BestMutations(step.scoredMuts, step.result, separation)

-----------------------------------------------------------------------------
(* Stand-alone calls of BestMutations *)

CandidateScores == {1, 2}

Candidates ==
    {WithScore(m, s, 0) :
        m \in {Insertion(p, <<"A">>) : p \in 0..MaxPos}
              \cup {Deletion(p, 1) : p \in 0..MaxPos}
              \cup {Substitution(p, <<"A", "C">>) : p \in 0..MaxPos},
        s \in CandidateScores}

\* arg.input and arg.picked record the list as it was handed in and the
\* scored mutations emitted so far (the result keeps no scores)
InitBest ==
    /\ pc = "BestMutations"
    /\ \E n \in 0..MaxCands, separation \in 0..MaxSep :
          \E input \in [1..n -> Candidates] :
              arg = [scoredMuts |-> input, separation |-> separation,
                     input |-> input, picked |-> <<>>]
    /\ ret = <<>>
    /\ NoPolish

\* line 185
BestMutationsThrow ==
    /\ pc = "BestMutations"
    /\ arg.separation = 0
    /\ pc' = "invalid_argument"
    /\ UNCHANGED <<arg, ret, polishVars>>

\* lines 187-198, once
BestMutationsLoop ==
    /\ pc = "BestMutations"
    /\ arg.separation # 0
    /\ arg.scoredMuts # <<>>
    /\ LET step == BestMutationsIteration(arg.scoredMuts, ret, arg.separation)
       IN  /\ arg' = [arg EXCEPT !.scoredMuts = step.scoredMuts,
                                 !.picked = Append(@, step.picked)]
           /\ ret' = step.result
    /\ UNCHANGED <<pc, polishVars>>

\* line 200
BestMutationsReturn ==
    /\ pc = "BestMutations"
    /\ arg.separation # 0
    /\ arg.scoredMuts = <<>>
    /\ pc' = "returned"
    /\ UNCHANGED <<arg, ret, polishVars>>

NextBest == BestMutationsThrow \/ BestMutationsLoop \/ BestMutationsReturn

SpecBest == InitBest /\ [][NextBest]_vars

-----------------------------------------------------------------------------
(* Claims about BestMutations *)

\* x lies wholly in front of m
Before(x, m) == x # m /\ End(x) <= Start(m) /\ SiteComparer(x, m)

\* Start of m in the template that results from applying the list
RECURSIVE ShiftBefore(_, _, _)
ShiftBefore(muts, m, k) ==
    IF k = 0 THEN 0
    ELSE (IF Before(muts[k], m) THEN LengthDiff(muts[k]) ELSE 0)
         + ShiftBefore(muts, m, k - 1)

PostStart(muts, m) == Start(m) + ShiftBefore(muts, m, Len(muts))

\* End of m there: inserted and substituted bases are present, deleted ones are not
PostEnd(muts, m) == PostStart(muts, m) + Len(m.bases)

\* C7: for separation >= 1 any two mutations BestMutations returns are at
\* least separation template bases apart in the coordinates of the template
\* after the returned mutations are applied.
C7_OutputSeparated ==
    pc = "returned" /\ "separation" \in DOMAIN arg =>
        \A i, j \in DOMAIN ret :
            i # j /\ ~SiteComparer(ret[j], ret[i]) =>
                PostStart(ret, ret[j]) - PostEnd(ret, ret[i]) >= arg.separation

\* three mutations returned from one call, an insertion and a deletion among them
C7_Witness ==
    /\ pc = "returned" /\ "separation" \in DOMAIN arg
    /\ arg.separation = MaxSep
    /\ Len(ret) >= 2
    /\ \E i, j \in DOMAIN ret : IsInsertion(ret[i]) /\ IsDeletion(ret[j])
                                 /\ SiteComparer(ret[i], ret[j])

\* C8: for separation >= 1 every loop iteration shortens the candidate list,
\* which is empty on return; the mutations are emitted in non-increasing
\* score order starting with a maximum-score candidate; every candidate that
\* is not emitted lies in the separation window of an emitted candidate whose
\* score is at least its own.
C8_GreedySelection ==
    "separation" \in DOMAIN arg /\ arg.separation >= 1 =>
        /\ pc = "BestMutations" /\ arg.scoredMuts # <<>> =>
              Len(BestMutationsIteration(arg.scoredMuts, ret, arg.separation).scoredMuts)
                  < Len(arg.scoredMuts)
        /\ Len(arg.picked) = Len(ret)
        /\ \A k \in DOMAIN ret : ret[k] = Mutation(arg.picked[k])
        /\ \A k \in 1..(Len(arg.picked) - 1) : arg.picked[k].Score >= arg.picked[k + 1].Score
        /\ arg.picked # <<>> =>
              \A c \in Range(arg.input) : arg.picked[1].Score >= c.Score
        /\ pc = "returned" =>
              /\ arg.scoredMuts = <<>>
              /\ arg.input # <<>> => ret # <<>>
              /\ \A c \in Range(arg.input) :
                    \E e \in Range(arg.picked) :
                        /\ e.Score >= c.Score
                        /\ InWindow(c, WindowStart(e, arg.separation),
                                    WindowEnd(e, arg.separation))

\* a call that emitted two candidates and dropped a third, lower-scoring one
C8_Witness ==
    /\ pc = "returned" /\ "separation" \in DOMAIN arg
    /\ Len(arg.input) = 3 /\ Len(ret) = 2
    /\ arg.picked[1].Score > arg.picked[2].Score
    /\ \E c \in Range(arg.input) : c \notin Range(arg.picked)

-----------------------------------------------------------------------------
(* Polish.cpp: candidate generation *)

\* 'Z', the sentinel of a nascent diploid site (line 82)
newDiploidMutation == <<"Z">>

RECURSIVE Concat(_, _)
Concat(seqs, k) == IF k = 0 THEN <<>> ELSE Concat(seqs, k - 1) \o seqs[k]

\* the candidates one loop iteration emits at site i (lines 95-110); last is
\* "" for the '\0' in front of the template
\* the body of the loop of lines 94-113, deleting inside a homopolymer as well
MutationsAtAlwaysDelete(tpl, i, last, bases) ==
    LET curr == tpl[i + 1]
        NotLast(j) == j # last
        NotCurr(j) == j # curr
        ins == SelectSeq(bases, NotLast)
        sub == SelectSeq(bases, NotCurr)
    IN  [k \in 1..Len(ins) |-> Insertion(i, <<ins[k]>>)]
        \o <<Deletion(i, 1)>>
        \o [k \in 1..Len(sub) |-> Substitution(i, <<sub[k]>>)]

MutationsAt(tpl, i, last, bases) ==
    LET curr == tpl[i + 1]
        NotLast(j) == j # last
        NotCurr(j) == j # curr
        ins == SelectSeq(bases, NotLast)
        sub == SelectSeq(bases, NotCurr)
    IN  [k \in 1..Len(ins) |-> Insertion(i, <<ins[k]>>)]
        \o (IF curr # last THEN <<Deletion(i, 1)>> ELSE <<>>)
        \o [k \in 1..Len(sub) |-> Substitution(i, <<sub[k]>>)]

\* Mutations(&muts, ai, start, end, diploid), lines 84-119
MutationsOver(bases, tpl, start, end) ==
    LET LastAt(i) == IF i > 0 THEN tpl[i] ELSE ""
        NotFinal(j) == j # LastAt(end)
        tail == SelectSeq(bases, NotFinal)
    IN  IF start = end THEN <<>>
        ELSE Concat([k \in 1..(end - start) |->
                        MutationsAt(tpl, start + k - 1, LastAt(start + k - 1), bases)],
                    end - start)
             \o [k \in 1..Len(tail) |-> Insertion(end, <<tail[k]>>)]

\* the bases of line 87-88, the haploid ones cut down to HaploidBases
Mutations(tpl, start, end, diploid) ==
    MutationsOver(IF diploid THEN newDiploidMutation ELSE HaploidBases, tpl, start, end)

-----------------------------------------------------------------------------
(* Polish.cpp: NearbyMutations *)

\* the clamp lambda of line 208
Clamp(len, i) == Max(0, Min(len, i))

\* the mutRange lambda of lines 217-221, reaching twice as far
MutRangeDouble(mut, diff, neighborhood, len) ==
    <<Clamp(len, diff + Start(mut) - 2 * neighborhood),
      Clamp(len, diff + End(mut) + 2 * neighborhood)>>

\* the mutRange lambda of lines 217-221
MutRange(mut, diff, neighborhood, len) ==
    <<Clamp(len, diff + Start(mut) - neighborhood),
      Clamp(len, diff + End(mut) + neighborhood)>>

\* the loops of lines 228-229 and 238-239: <<ait, lengthDiff>> afterwards
RECURSIVE AdvanceApplied(_, _, _, _)
AdvanceApplied(applied, ait, lengthDiff, center) ==
    IF ait <= Len(applied) /\ End(applied[ait]) <= Start(center)
    THEN AdvanceApplied(applied, ait + 1, lengthDiff + LengthDiff(applied[ait]), center)
    ELSE <<ait, lengthDiff>>

\* the loop of lines 235-250 from center cit on: the ranges at its end
RECURSIVE NearbyRanges(_, _, _, _, _, _, _, _, _)
NearbyRanges(applied, centers, cit, ait, lengthDiff, ranges, currEnd, neighborhood, len) ==
    IF cit > Len(centers) THEN ranges
    ELSE LET adv == AdvanceApplied(applied, ait, lengthDiff, centers[cit])
             next == MutRange(centers[cit], adv[2], neighborhood, len)
         IN  IF next[1] <= currEnd
             THEN NearbyRanges(applied, centers, cit + 1, adv[1], adv[2],
                               [ranges EXCEPT ![Len(ranges)][2] = next[2]],
                               currEnd, neighborhood, len)
             ELSE NearbyRanges(applied, centers, cit + 1, adv[1], adv[2],
                               Append(ranges, next), next[2], neighborhood, len)

\* the ranges of lines 223-250; both lists arrive sorted by site and the
\* sorts of lines 214-215 leave such lists as they are
RangesOf(applied, centers, len, neighborhood) ==
    LET adv == AdvanceApplied(applied, 1, 0, centers[1])
        first == MutRange(centers[1], adv[2], neighborhood, len)
    IN  NearbyRanges(applied, centers, 2, adv[1], adv[2], <<first>>, first[2],
                     neighborhood, len)

\* NearbyMutations(&applied, &centers, ai, neighborhood, diploid), lines 203-256
NearbyMutations(applied, centers, tpl, neighborhood, diploid) ==
    IF centers = <<>> THEN <<>>
    ELSE LET ranges == RangesOf(applied, centers, Len(tpl), neighborhood)
         IN  Concat([k \in DOMAIN ranges |->
                        Mutations(tpl, ranges[k][1], ranges[k][2], diploid)],
                    Len(ranges))

-----------------------------------------------------------------------------
(* Polish.cpp: the diploid test of lines 361-391 *)

minCoverage == 10

\* majorityFraction = 0.75 and minFractionMinor = 0.25, in quarters
majorityQuarters == 3

minorQuarters == 1

RECURSIVE Coverage(_, _)
Coverage(histogram, k) ==
    IF k = 0 THEN 0 ELSE histogram[k][2] + Coverage(histogram, k - 1)

\* cdf(binomial(coverage, 1 - errorRate), top) <= significanceLevel, with
\* errorRate 0.08 and significanceLevel 0.005: for a coverage of 10 to 14
\* the cdf is at most 0.005 exactly up to coverage - 5
PValueSignificant(coverage, top) == top <= coverage - 5

\* the four filters of lines 372-386 all passed
DiploidFiltersPass(histogram) ==
    LET coverage == Coverage(histogram, Len(histogram))
    IN  /\ ~(coverage < minCoverage)
        /\ ~(4 * (histogram[1][2] + histogram[2][2]) < coverage * majorityQuarters)
        /\ PValueSignificant(coverage, histogram[1][2])
        /\ ~(4 * histogram[2][2] < coverage * minorQuarters)

\* Data::detail::createAmbiguousBase: the IUPAC code of two bases
createAmbiguousBase(a, b) ==
    LET pair == {a, b}
    IN  IF pair = {"A", "C"} THEN "M"
        ELSE IF pair = {"A", "G"} THEN "R"
        ELSE IF pair = {"A", "T"} THEN "W"
        ELSE IF pair = {"C", "G"} THEN "S"
        ELSE IF pair = {"C", "T"} THEN "Y"
        ELSE "K"

\* the mutation of lines 393-396
NewDiploidMutation(mut, histogram) ==
    LET newAmbiguousBase == createAmbiguousBase(histogram[1][1], histogram[2][1])
    IN  IF IsInsertion(mut) THEN Insertion(Start(mut), <<newAmbiguousBase>>)
        ELSE Substitution(Start(mut), <<newAmbiguousBase>>)

\* Integrator::BestMutationHistogram: the outcomes the model draws from, each
\* sorted by count, for an Integrator with n valid Evaluators
HistogramShapes ==
    { << <<"A", 5>>, <<"C", 5>>, <<"G", 0>>, <<"T", 0>> >>,
      << <<"C", 10>>, <<"A", 0>>, <<"G", 0>>, <<"T", 0>> >>,
      << <<"A", 4>>, <<"C", 3>>, <<"G", 3>>, <<"T", 0>> >>,
      << <<"A", 7>>, <<"C", 2>>, <<"G", 2>>, <<"T", 1>> >>,
      << <<"A", 0>>, <<"C", 0>>, <<"G", 0>>, <<"T", 0>> >> }

BestMutationHistogram(n) == {h \in HistogramShapes : Coverage(h, Len(h)) <= n}

-----------------------------------------------------------------------------
(* std::hash<std::string> *)

BaseCode(c) ==
    CASE c = "A" -> 1 [] c = "C" -> 2 [] c = "G" -> 3 [] c = "T" -> 4
      [] c = "M" -> 5 [] c = "R" -> 6 [] c = "W" -> 7 [] c = "S" -> 8
      [] c = "Y" -> 9 [] OTHER -> 10

RECURSIVE hashFn(_)
hashFn(str) ==
    IF str = <<>> THEN 0
    ELSE (hashFn(SubSeq(str, 1, Len(str) - 1)) * 11 + BaseCode(str[Len(str)])) % 16777216

-----------------------------------------------------------------------------
(* Integrator.h: the Integrator as Polish sees it *)

MaxRounds == 2   \* largest MaximumIterations
MaxLL == 2       \* LL() and LL(mut) range over 0..MaxLL, 0 being the floor
MaxPeaks == 3    \* how many templates may show an LL above the floor
MaxThrown == 2   \* how many times LL(mut) may throw InvalidEvaluatorException

\* LL() of the valid Evaluators on template tpl: the sum over no Evaluator is
\* 0; a template seen before with the same valid Evaluators has the LL it had;
\* any other LL is possible
LLValues(a, tpl) ==
    IF a.validEvals = 0 THEN {0}
    ELSE IF tpl \in DOMAIN a.known THEN {a.known[tpl]}
    ELSE IF a.peaks < MaxPeaks THEN 0..MaxLL
    ELSE {0}

\* the Integrator once LL has shown ll for tpl
Observed(a, tpl, ll) ==
    IF a.validEvals = 0 \/ tpl \in DOMAIN a.known THEN a
    ELSE [a EXCEPT !.known = (tpl :> ll) @@ @,
                   !.peaks = @ + (IF ll > 0 THEN 1 ELSE 0)]

\* the number of valid Evaluators after LL(mut) threw, without the invalidation
ValidAfterThrowUnchanged(validEvals) == validEvals

\* the number of valid Evaluators after LL(mut) threw: the Evaluator that
\* could not score is invalid from now on
ValidAfterThrow(validEvals) == validEvals - 1

\* Integrator::LL(mut) throwing: the sums over the remaining Evaluators are new
Invalidated(a) ==
    [a EXCEPT !.validEvals = ValidAfterThrow(@), !.known = <<>>, !.thrown = @ + 1]

\* the template LL(mut) scores
Mutated(tpl, mut) == ApplyMutations(tpl, <<mut>>)

-----------------------------------------------------------------------------
(* Polish.cpp: Polish *)

\* the drafts, Evaluator counts and PolishConfigs Polish is run on
SmallDrafts == {<<>>, <<"A">>}

Drafts == SmallDrafts \cup {<<"A", "C", "A">>}

EvaluatorCounts == {1, 12}

SmallInputs ==
    [draft : SmallDrafts, evals : {1}, throws : {MaxThrown},
     MaximumIterations : {0, MaxRounds},
     MutationSeparation : {0, 1}, MutationNeighborhood : {1}, Diploid : BOOLEAN]
    \cup
    [draft : SmallDrafts, evals : EvaluatorCounts, throws : {MaxThrown},
     MaximumIterations : {1},
     MutationSeparation : {1}, MutationNeighborhood : {1}, Diploid : BOOLEAN]

Inputs ==
    [draft : Drafts, evals : {1}, throws : {MaxThrown}, MaximumIterations : {MaxRounds},
     MutationSeparation : {1}, MutationNeighborhood : {1}, Diploid : {FALSE}]
    \cup
    [draft : {<<"A">>}, evals : {12}, throws : {0}, MaximumIterations : {MaxRounds},
     MutationSeparation : {1}, MutationNeighborhood : {1}, Diploid : {TRUE}]
    \cup SmallInputs

\* the test of lines 409 and 414, reversed
ImprovesReversed(ll, baseline) == ll < baseline

\* the test of lines 409 and 414
Improves(ll, baseline) == ll > baseline

\* scoredMuts after the catch block, had it kept the list
CaughtKeepsScored(scored) == scored

\* scoredMuts after the catch block (line 422)
Caught(scored) == <<>>

\* the convergence test of line 434, on one mutation or none
NoneSelectedOrOne(selected) == Len(selected) <= 1

\* the convergence test of line 434
NoneSelected(selected) == selected = <<>>

\* the test of lines 356-358: mut is the sentinel of a diploid site
IsSentinel(mut) ==
    cfg.Diploid /\ ~IsDeletion(mut) /\ mut.bases = newDiploidMutation

\* the state Polish starts in on the input in: lines 329-336
PolishOn(in) ==
    /\ pc = "for"
    /\ arg = <<>> /\ ret = <<>>
    /\ LET draft == in.draft
            n == in.evals
        IN
          /\ cfg = [MaximumIterations |-> in.MaximumIterations,
                    MutationSeparation |-> in.MutationSeparation,
                    MutationNeighborhood |-> in.MutationNeighborhood,
                    Diploid |-> in.Diploid]
          /\ ai = [fwdTpl |-> draft, validEvals |-> n, known |-> <<>>,
                   peaks |-> 0, thrown |-> 0, throws |-> in.throws]
          /\ polish = [muts |-> Mutations(draft, 0, Len(draft), in.Diploid),
                       history |-> {hashFn(draft)},
                       oldTpl |-> hashFn(draft),
                       mutTracker |-> [tpl |-> draft, batches |-> <<>>],
                       result |-> [hasConverged |-> FALSE, mutationsApplied |-> 0,
                                   mutationsTested |-> 0],
                       i |-> 0,
                       scoredMuts |-> <<>>, mutationsTested |-> 0,
                       hasNewInvalidEvaluator |-> FALSE, LL |-> 0, it |-> 1]
          /\ obs = [pass |-> 0, validAtRound |-> n, tplAtRound |-> draft,
                    llAtRound |-> 0, invalidated |-> FALSE,
                    handed |-> <<>>, selected |-> <<>>, noneSelected |-> FALSE,
                    last |-> [applied |-> <<>>, selected |-> <<>>, handed |-> <<>>,
                              guard |-> FALSE,
                              llBefore |-> 0, llAfter |-> 0, invalidated |-> FALSE]]

InitPolish == \E in \in Inputs : PolishOn(in)

InitSmallPolish == \E in \in SmallInputs : PolishOn(in)

\* the loop condition of line 338, one round too many
InRoundsInclusive(i, MaximumIterations) == i <= MaximumIterations

\* i < cfg.MaximumIterations, line 338
InRounds(i, MaximumIterations) == i < MaximumIterations

\* line 338, condition true; lines 341-343
ForRound ==
    /\ pc = "for"
    /\ InRounds(polish.i, cfg.MaximumIterations)
    /\ polish' = [polish EXCEPT !.scoredMuts = <<>>, !.mutationsTested = 0]
    /\ obs' = [obs EXCEPT !.pass = 0, !.validAtRound = ai.validEvals,
                          !.tplAtRound = ai.fwdTpl, !.invalidated = FALSE,
                          !.handed = <<>>, !.selected = <<>>]
    /\ pc' = "do"
    /\ UNCHANGED <<arg, ret, ai, cfg>>

\* line 338, condition false; line 489
ForDone ==
    /\ pc = "for"
    /\ ~InRounds(polish.i, cfg.MaximumIterations)
    /\ pc' = "returned"
    /\ UNCHANGED <<arg, ret, ai, cfg, polish, obs>>

\* lines 347-352: the baseline of a scoring pass
DoPass ==
    /\ pc = "do"
    /\ \E ll \in LLValues(ai, ai.fwdTpl) :
          /\ ai' = Observed(ai, ai.fwdTpl, ll)
          /\ polish' = [polish EXCEPT !.LL = ll, !.hasNewInvalidEvaluator = FALSE,
                                      !.it = 1]
          /\ obs' = [obs EXCEPT !.llAtRound = IF obs.pass = 0 THEN ll ELSE @]
    /\ pc' = "score"
    /\ UNCHANGED <<arg, ret, cfg>>

\* lines 354-356 and 404-415: LL(mut) returns
ScoreMutation ==
    /\ pc = "score"
    /\ polish.it <= Len(polish.muts)
    /\ LET mut == polish.muts[polish.it]
       IN  /\ ~IsSentinel(mut)
           /\ \E ll \in LLValues(ai, Mutated(ai.fwdTpl, mut)) :
                 /\ ai' = Observed(ai, Mutated(ai.fwdTpl, mut), ll)
                 /\ polish' = [polish EXCEPT
                        !.mutationsTested = @ + 1,
                        !.scoredMuts = IF Improves(ll, polish.LL)
                                       THEN Append(@, WithScore(mut, ll, obs.pass))
                                       ELSE @,
                        !.it = @ + 1]
    /\ UNCHANGED <<pc, arg, ret, cfg, obs>>

\* lines 354-386: the sentinel fails one of the four filters
ScoreDiploidSkip ==
    /\ pc = "score"
    /\ polish.it <= Len(polish.muts)
    /\ IsSentinel(polish.muts[polish.it])
    /\ \E histogram \in BestMutationHistogram(ai.validEvals) :
          ~DiploidFiltersPass(histogram)
    /\ polish' = [polish EXCEPT !.mutationsTested = @ + 1, !.it = @ + 1]
    /\ UNCHANGED <<pc, arg, ret, ai, cfg, obs>>

\* lines 354-403: the sentinel passes the filters and LL(newMutation) returns
ScoreDiploidSite ==
    /\ pc = "score"
    /\ polish.it <= Len(polish.muts)
    /\ IsSentinel(polish.muts[polish.it])
    /\ \E histogram \in BestMutationHistogram(ai.validEvals) :
          /\ DiploidFiltersPass(histogram)
          /\ LET newMutation == NewDiploidMutation(polish.muts[polish.it], histogram)
             IN  \E ll \in LLValues(ai, Mutated(ai.fwdTpl, newMutation)) :
                    /\ ai' = Observed(ai, Mutated(ai.fwdTpl, newMutation), ll)
                    /\ polish' = [polish EXCEPT
                           !.mutationsTested = @ + 1,
                           !.scoredMuts = Append(@, WithScore(newMutation, ll, obs.pass)),
                           !.it = @ + 1]
    /\ UNCHANGED <<pc, arg, ret, cfg, obs>>

\* LL(mut) of line 398, 408 or 413 throws; lines 417-425
InvalidEvaluator ==
    /\ pc = "score"
    /\ polish.it <= Len(polish.muts)
    /\ ai.validEvals > 0
    /\ ai.thrown < ai.throws
    /\ IsSentinel(polish.muts[polish.it]) =>
          \E histogram \in BestMutationHistogram(ai.validEvals) :
              DiploidFiltersPass(histogram)
    /\ ai' = Invalidated(ai)
    /\ polish' = [polish EXCEPT !.hasNewInvalidEvaluator = TRUE,
                                !.scoredMuts = Caught(@),
                                !.mutationsTested = 0]
    /\ obs' = [obs EXCEPT !.pass = @ + 1, !.invalidated = TRUE]
    /\ pc' = "do"
    /\ UNCHANGED <<arg, ret, cfg>>

\* lines 425-430 with separation 0: BestMutations throws (line 185)
EndPassThrow ==
    /\ pc = "score"
    /\ polish.it > Len(polish.muts)
    /\ cfg.MutationSeparation = 0
    /\ polish' = [polish EXCEPT
           !.result.mutationsTested = @ + polish.mutationsTested]
    /\ obs' = [obs EXCEPT !.handed = polish.scoredMuts]
    /\ pc' = "invalid_argument"
    /\ UNCHANGED <<arg, ret, ai, cfg>>

\* lines 425-431: the pass ended without exception, BestMutations selects
EndPass ==
    /\ pc = "score"
    /\ polish.it > Len(polish.muts)
    /\ cfg.MutationSeparation # 0
    /\ polish' = [polish EXCEPT
           !.result.mutationsTested = @ + polish.mutationsTested,
           !.muts = BestMutations(polish.scoredMuts, <<>>, cfg.MutationSeparation),
           !.scoredMuts = <<>>]
    /\ obs' = [obs EXCEPT !.handed = polish.scoredMuts, !.selected = polish'.muts,
                          !.noneSelected = polish'.muts = <<>>]
    /\ pc' = "select"
    /\ UNCHANGED <<arg, ret, ai, cfg>>

\* lines 434-442
Converge ==
    /\ pc = "select"
    /\ NoneSelected(polish.muts)
    /\ polish' = [polish EXCEPT !.result.hasConverged = TRUE]
    /\ pc' = "returned"
    /\ UNCHANGED <<arg, ret, ai, cfg, obs>>

\* MutationTracker::AddSortedMutations: the batch is appended to the record
AddSortedMutations(tracker, muts) ==
    [tracker EXCEPT !.batches = Append(@, muts)]

\* what lines 446-448 and both branches of lines 456-483 leave behind, then line 486 and ++i;
\* llAfter is LL() of the new template, observed for the properties
Applied(sorted, applied, guard, fingerprint) ==
    LET newTpl == ApplyMutations(ai.fwdTpl, applied)
    IN  \E ll \in LLValues(ai, newTpl) :
           /\ ai' = Observed([ai EXCEPT !.fwdTpl = newTpl], newTpl, ll)
           /\ polish' = [polish EXCEPT
                  !.mutTracker = IF cfg.Diploid THEN AddSortedMutations(@, sorted) ELSE @,
                  !.oldTpl = IF guard THEN hashFn(newTpl) ELSE fingerprint,
                  !.result.mutationsApplied = @ + Len(applied),
                  !.muts = NearbyMutations(applied, sorted, newTpl,
                                           cfg.MutationNeighborhood, cfg.Diploid),
                  !.history = @ \cup {IF guard THEN hashFn(newTpl) ELSE fingerprint},
                  !.i = @ + 1]
           /\ obs' = [obs EXCEPT !.last =
                         [applied |-> applied, selected |-> obs.selected,
                          handed |-> obs.handed, guard |-> guard, llBefore |-> obs.llAtRound,
                          llAfter |-> ll, invalidated |-> obs.invalidated]]

\* lines 444-473 and 486: the fingerprint is in the history, muts.front() is applied
ApplyFirst ==
    /\ pc = "select"
    /\ ~NoneSelected(polish.muts)
    /\ \E sorted \in SiteSorted(polish.muts) :
          LET newTpl == hashFn(ApplyMutations(ai.fwdTpl, sorted))
          IN  /\ newTpl \in polish.history
              /\ Applied(sorted, <<sorted[1]>>, TRUE, newTpl)
    /\ pc' = "for"
    /\ UNCHANGED <<arg, ret, cfg>>

\* lines 444-455 and 474-486: all selected mutations are applied
ApplyAll ==
    /\ pc = "select"
    /\ ~NoneSelected(polish.muts)
    /\ \E sorted \in SiteSorted(polish.muts) :
          LET newTpl == hashFn(ApplyMutations(ai.fwdTpl, sorted))
          IN  /\ newTpl \notin polish.history
              /\ Applied(sorted, sorted, FALSE, newTpl)
    /\ pc' = "for"
    /\ UNCHANGED <<arg, ret, cfg>>

NextPolish ==
    \/ ForRound \/ ForDone \/ DoPass
    \/ ScoreMutation \/ ScoreDiploidSkip \/ ScoreDiploidSite \/ InvalidEvaluator
    \/ EndPassThrow \/ EndPass
    \/ Converge \/ ApplyFirst \/ ApplyAll

SpecPolish == InitPolish /\ [][NextPolish]_vars

\* the scheduling of Polish: one thread, every step is eventually taken
FairPolish == InitSmallPolish /\ [][NextPolish]_vars /\ WF_vars(NextPolish)

-----------------------------------------------------------------------------
(* Claims: Polish *)

\* scoredMuts has been handed to BestMutations (line 430)
Handed == pc \in {"select", "invalid_argument"}

\* m came out of the sentinel branch of lines 356-403
DiploidSite(m) == cfg.Diploid /\ ~IsDeletion(m)

\* C2, as stated: every ScoredMutation handed to BestMutations was scored in
\* the final, exception-free pass of its round and has a Score strictly above
\* the baseline LL() of that pass
C2_HandedAboveBaseline ==
    Handed =>
        \A k \in 1..Len(obs.handed) :
            /\ obs.handed[k].pass = obs.pass
            /\ obs.handed[k].Score > polish.LL

\* C2, amended: every ScoredMutation handed to BestMutations was scored in the
\* final, exception-free pass of its round; its Score is strictly above the
\* baseline of that pass unless it is the mutation of a diploid site, which is
\* kept whatever it scores
C2_HandedFromFinalPass ==
    Handed =>
        \A k \in 1..Len(obs.handed) :
            /\ obs.handed[k].pass = obs.pass
            /\ obs.handed[k].Score > polish.LL \/ DiploidSite(obs.handed[k])

\* a round that restarted hands over a diploid site scored at or below the baseline
C2_Witness ==
    /\ pc = "select"
    /\ obs.pass > 0
    /\ \E k \in 1..Len(obs.handed) : obs.handed[k].Score <= polish.LL
    /\ \E k \in 1..Len(obs.handed) : obs.handed[k].Score > polish.LL

\* the last round applied mutations and no Evaluator was invalidated in it
AppliedUndisturbed == obs.last.applied # <<>> /\ ~obs.last.invalidated

\* C3, as stated: after a round that applies mutations and invalidates no
\* Evaluator, LL() is at least what it was before the round, batches included
C3_RoundLLNonDecreasing ==
    AppliedUndisturbed => obs.last.llAfter >= obs.last.llBefore

\* C3, amended: after a round that invalidates no Evaluator and applies exactly
\* one mutation, which is not the mutation of a diploid site, LL() is the
\* Score of that mutation and is above what it was before the round
C3_SingleMutationRoundLLIncreases ==
    (AppliedUndisturbed /\ Len(obs.last.applied) = 1
        /\ ~DiploidSite(obs.last.applied[1])) =>
            /\ obs.last.llAfter >= obs.last.llBefore
            /\ obs.last.llAfter > obs.last.llBefore
            /\ \E k \in 1..Len(obs.last.handed) :
                  /\ Mutation(obs.last.handed[k]) = Mutation(obs.last.applied[1])
                  /\ obs.last.handed[k].Score = obs.last.llAfter

\* the cycle guard applied one improving mutation out of several selected
C3_Witness ==
    /\ AppliedUndisturbed
    /\ obs.last.guard
    /\ Len(obs.last.selected) > 1
    /\ Len(obs.last.applied) = 1
    /\ ~cfg.Diploid
    /\ obs.last.llAfter > obs.last.llBefore

\* C4, as stated: when the fingerprint of the joint result is in the history,
\* exactly the first mutation BestMutations selected is applied; otherwise all
\* selected mutations are applied
C4_GuardAppliesFirstSelected ==
    obs.last.applied # <<>> =>
        IF obs.last.guard
        THEN obs.last.applied = <<obs.last.selected[1]>>
        ELSE /\ Len(obs.last.applied) = Len(obs.last.selected)
             /\ Range(obs.last.applied) = Range(obs.last.selected)

\* C5: hasConverged is true exactly when a round selected no candidate, and
\* Polish then returns in that round, i < MaximumIterations, the template as
\* the round found it; otherwise every round applied a mutation and Polish
\* returns hasConverged false after MaximumIterations rounds
C5_ConvergedIffNoneSelected ==
    /\ polish.i <= cfg.MaximumIterations
    /\ obs.noneSelected => pc \in {"select", "returned"}
    /\ pc = "returned" => (polish.result.hasConverged <=> obs.noneSelected)
    /\ polish.result.hasConverged =>
          /\ pc = "returned"
          /\ polish.i < cfg.MaximumIterations
          /\ ai.fwdTpl = obs.tplAtRound
    /\ (pc = "returned" /\ ~polish.result.hasConverged) =>
          /\ polish.i = cfg.MaximumIterations
          /\ polish.result.mutationsApplied >= polish.i

\* Polish converged in its second round
C5_Witness ==
    /\ pc = "returned"
    /\ polish.result.hasConverged
    /\ polish.i = 1
    /\ polish.result.mutationsApplied > 0

\* Polish ran out of rounds
C5_WitnessExhausted ==
    /\ pc = "returned"
    /\ ~polish.result.hasConverged
    /\ cfg.MaximumIterations > 0

\* C6: the scoring loop of a round ends; it restarts at most as many times as
\* there were valid Evaluators when the round began, every throw invalidating
\* one; a restart empties scoredMuts and zeroes mutationsTested, and the next
\* pass takes LL() anew and scans the candidates from the first to the last
C6_ScoringLoopTerminates ==
    /\ [][/\ obs'.pass <= obs'.validAtRound
          /\ ai'.validEvals <= obs'.validAtRound - obs'.pass
          /\ obs'.pass > obs.pass =>
                /\ pc' = "do"
                /\ polish'.scoredMuts = <<>>
                /\ polish'.mutationsTested = 0
                /\ polish'.muts = polish.muts
          /\ pc = "do" =>
                /\ pc' = "score"
                /\ polish'.LL \in LLValues(ai, ai.fwdTpl)
                /\ polish'.it = 1
                /\ polish'.scoredMuts = <<>>
          /\ (pc = "score" /\ pc' \in {"select", "invalid_argument"}) =>
                /\ polish.it = Len(polish.muts) + 1
                /\ polish.mutationsTested = Len(polish.muts)]_vars
    /\ (pc = "do") ~> (pc \in {"select", "invalid_argument"})

\* a scoring loop ended after two restarts
C6_Witness == pc = "select" /\ obs.pass = 2

-----------------------------------------------------------------------------
(* Mutation.cpp: the factories and constructors *)

\* assert(cond) of <cassert>: it ends the program unless the build defines NDEBUG
AssertHolds(ndebug, cond) == ndebug \/ cond

\* the calls of the factories: Deletion(start, length), Insertion(start, bases)
\* and Substitution(start, bases), in a build with or without NDEBUG
FactoryCalls ==
    [fn : {"Deletion"}, start : 0..MaxPos, length : 0..MaxLen, ndebug : BOOLEAN]
    \cup
    [fn : {"Insertion", "Substitution"}, start : 0..MaxPos, bases : Strings(MaxMuts),
     ndebug : BOOLEAN]

InitFactory ==
    /\ pc = "factory"
    /\ arg \in FactoryCalls
    /\ ret = None
    /\ NoPolish

\* Mutation::Deletion, lines 47-50, and the constructor of lines 105-109
CallDeletion ==
    /\ pc = "factory"
    /\ arg.fn = "Deletion"
    /\ IF AssertHolds(arg.ndebug, TRUE)
       THEN pc' = "returned" /\ ret' = Deletion(arg.start, arg.length)
       ELSE pc' = "aborted" /\ ret' = ret
    /\ UNCHANGED <<arg, polishVars>>

\* Mutation::Insertion(size_t, std::string), lines 57-60, and the constructor
\* of lines 119-126
CallInsertion ==
    /\ pc = "factory"
    /\ arg.fn = "Insertion"
    /\ IF AssertHolds(arg.ndebug, Len(arg.bases) > 0)
       THEN pc' = "returned" /\ ret' = Insertion(arg.start, arg.bases)
       ELSE pc' = "aborted" /\ ret' = ret
    /\ UNCHANGED <<arg, polishVars>>

\* Mutation::Substitution(size_t, std::string), lines 67-70, and the
\* constructor of lines 119-126
CallSubstitution ==
    /\ pc = "factory"
    /\ arg.fn = "Substitution"
    /\ IF AssertHolds(arg.ndebug, Len(arg.bases) > 0)
       THEN pc' = "returned" /\ ret' = Substitution(arg.start, arg.bases)
       ELSE pc' = "aborted" /\ ret' = ret
    /\ UNCHANGED <<arg, polishVars>>

NextFactory == CallDeletion \/ CallInsertion \/ CallSubstitution

SpecFactory == InitFactory /\ [][NextFactory]_vars

-----------------------------------------------------------------------------
(* Claims: the factories *)

\* m has bases if it is not a deletion, and a length if it is one
WellFormed(m) == IF IsDeletion(m) THEN m.length > 0 ELSE m.bases # <<>>

\* C11, as stated: no factory returns a malformed mutation: an insertion or a
\* substitution without bases, or a deletion of length 0
C11_NoMalformedMutation ==
    pc = "returned" => WellFormed(ret)

\* what holds instead: in a build with assertions no factory returns an
\* insertion or a substitution without bases
FactoryAssertsBases ==
    (pc = "returned" /\ ~arg.ndebug /\ ~IsDeletion(ret)) => WellFormed(ret)

-----------------------------------------------------------------------------
(* Polish.cpp: Mutations, stand-alone, over the four bases of line 88 *)

AllBases == <<"A", "C", "G", "T">>

Templates(n) == UNION {[1..k -> Range(AllBases)] : k \in 0..n}

InitMutations ==
    /\ pc = "Mutations"
    /\ \E tpl \in Templates(MaxLen) : \E start \in 0..Len(tpl) : \E end \in start..Len(tpl) :
          arg = [tpl |-> tpl, start |-> start, end |-> end]
    /\ ret = <<>>
    /\ NoPolish

\* Mutations(ai, start, end, false), lines 120-126
CallMutations ==
    /\ pc = "Mutations"
    /\ ret' = MutationsOver(AllBases, arg.tpl, arg.start, arg.end)
    /\ pc' = "returned"
    /\ UNCHANGED <<arg, polishVars>>

NextMutations == CallMutations

SpecMutations == InitMutations /\ [][NextMutations]_vars

-----------------------------------------------------------------------------
(* Claims: Mutations *)

\* the template base at position i, counted from 0; none outside the template
BaseAt(tpl, i) == IF i >= 0 /\ i < Len(tpl) THEN tpl[i + 1] ELSE ""

\* the candidates the haploid generator is to emit for [start, end)
Candidates12(tpl, start, end) ==
    IF start = end THEN {}
    ELSE ({Insertion(i, <<b>>) : i \in start..(end - 1), b \in Range(AllBases)}
             \ {Insertion(i, <<BaseAt(tpl, i - 1)>>) : i \in start..(end - 1)})
         \cup {Deletion(i, 1) : i \in {j \in start..(end - 1) :
                                          BaseAt(tpl, j) # BaseAt(tpl, j - 1)}}
         \cup ({Substitution(i, <<b>>) : i \in start..(end - 1), b \in Range(AllBases)}
                  \ {Substitution(i, <<BaseAt(tpl, i)>>) : i \in start..(end - 1)})
         \cup ({Insertion(end, <<b>>) : b \in Range(AllBases)}
                  \ {Insertion(end, <<BaseAt(tpl, end - 1)>>)})

\* C12: Mutations emits, once each, the insertions at i of the bases other
\* than the one at i-1, the deletion at i where the base differs from the one
\* at i-1, the substitutions at i by the other bases, for i in [start, end),
\* and the insertions at end of the bases other than the last one; nothing
\* when start = end
C12_MutationsEmitsExactly ==
    pc = "returned" =>
        /\ Range(ret) = Candidates12(arg.tpl, arg.start, arg.end)
        /\ Len(ret) = Cardinality(Candidates12(arg.tpl, arg.start, arg.end))

\* a range that begins inside the template and holds the second base of a
\* homopolymer
C12_Witness ==
    /\ pc = "returned"
    /\ arg.start > 0
    /\ arg.end - arg.start >= 2
    /\ BaseAt(arg.tpl, arg.start + 1) = BaseAt(arg.tpl, arg.start)
    /\ ret # <<>>

-----------------------------------------------------------------------------
(* Polish.cpp: RepeatMutations *)

MaxRepLen == 5      \* longest template handed to RepeatMutations
MaxRepeatSize == 3  \* largest RepeatConfig::MaximumRepeatSize
MaxCount == 3       \* largest RepeatConfig::MinimumElementCount

\* std::sort with Mutation::SiteComparer on the elements of muts indexed by S:
\* every ordering the comparer accepts, built from the front
RECURSIVE SortedFrom(_, _)
SortedFrom(muts, S) ==
    IF S = {} THEN {<<>>}
    ELSE UNION {{<<muts[k]>> \o rest : rest \in SortedFrom(muts, S \ {k})} :
                   k \in {j \in S : \A l \in S : ~SiteComparer(muts[l], muts[j])}}

\* tpl.compare(j, repeatSize, tpl, i, repeatSize) == 0, line 147
SameElement(tpl, i, j, repeatSize) ==
    Substr(tpl, j, repeatSize) = Substr(tpl, i, repeatSize)

\* the loop of lines 146-151: nElem after it, entered with j and nElem
RECURSIVE CountElements(_, _, _, _, _, _)
CountElements(tpl, i, j, repeatSize, end, nElem) ==
    IF j + repeatSize <= end /\ SameElement(tpl, i, j, repeatSize)
    THEN CountElements(tpl, i, j + repeatSize, repeatSize, end, nElem + 1)
    ELSE nElem

\* nElem of lines 144-151 at position i
Elements(tpl, i, repeatSize, end) ==
    CountElements(tpl, i, i + repeatSize, repeatSize, end, 1)

\* the step of lines 157-160, always to the next position
NextPositionDense(i, repeatSize, nElem) == i + 1

\* the step of lines 157-160
NextPosition(i, repeatSize, nElem) ==
    IF nElem > 1 THEN i + repeatSize * (nElem - 1) + 1 ELSE i + 1

\* the loop of lines 142-161 for one repeatSize, from position i
RECURSIVE RepeatScan(_, _, _, _, _)
RepeatScan(tpl, repeatSize, i, end, minCount) ==
    IF i + repeatSize <= end
    THEN LET nElem == Elements(tpl, i, repeatSize, end)
         IN  (IF nElem >= minCount
              THEN <<Insertion(i, Substr(tpl, i, repeatSize)), Deletion(i, repeatSize)>>
              ELSE <<>>)
             \o RepeatScan(tpl, repeatSize, NextPosition(i, repeatSize, nElem), end, minCount)
    ELSE <<>>

\* the loop of lines 141-162, from repeatSize on
RECURSIVE RepeatSizes(_, _, _, _, _, _)
RepeatSizes(tpl, repeatSize, maxSize, start, end, minCount) ==
    IF repeatSize <= maxSize
    THEN RepeatScan(tpl, repeatSize, start, end, minCount)
         \o RepeatSizes(tpl, repeatSize + 1, maxSize, start, end, minCount)
    ELSE <<>>

\* RepeatMutations(ai, cfg, start, end), lines 134-173, before the sort
RepeatMutations(tpl, rcfg, start, end) ==
    IF rcfg.MaximumRepeatSize < 2 \/ rcfg.MinimumElementCount <= 0 THEN <<>>
    ELSE RepeatSizes(tpl, 2, rcfg.MaximumRepeatSize, start, end, rcfg.MinimumElementCount)

InitRepeat ==
    /\ pc = "RepeatMutations"
    /\ \E tpl \in Strings(MaxRepLen) : \E start \in 0..Len(tpl) : \E end \in start..Len(tpl) :
          \E size \in 0..MaxRepeatSize, count \in 0..MaxCount :
              arg = [tpl |-> tpl, start |-> start, end |-> end,
                     cfg |-> [MaximumRepeatSize |-> size, MinimumElementCount |-> count]]
    /\ ret = <<>>
    /\ NoPolish

\* RepeatMutations(ai, cfg, start, end), lines 167-173, with the sort of line 164
CallRepeatMutations ==
    /\ pc = "RepeatMutations"
    /\ LET muts == RepeatMutations(arg.tpl, arg.cfg, arg.start, arg.end)
       IN  ret' \in SortedFrom(muts, DOMAIN muts)
    /\ pc' = "returned"
    /\ UNCHANGED <<arg, polishVars>>

NextRepeat == CallRepeatMutations

SpecRepeat == InitRepeat /\ [][NextRepeat]_vars

-----------------------------------------------------------------------------
(* Claims: RepeatMutations *)

\* n adjacent copies of the k-mer at i begin at i and lie before end
HasCopies(tpl, i, k, end, n) ==
    /\ i + n * k <= end
    /\ \A c \in 1..(n - 1) : Substr(tpl, i + c * k, k) = Substr(tpl, i, k)

\* the number of adjacent copies of the k-mer at i that begin at i, i + k <= end
CopiesAt(tpl, i, k, end) ==
    CHOOSE n \in 1..(Len(tpl) + 1) :
        HasCopies(tpl, i, k, end, n) /\ ~HasCopies(tpl, i, k, end, n + 1)

\* i is the first position of a run of at least minCount adjacent identical
\* k-mers inside [start, end): no further copy lies just before it
RunStart(tpl, i, k, start, end, minCount) ==
    /\ i >= start
    /\ HasCopies(tpl, i, k, end, minCount)
    /\ ~(i - k >= start /\ Substr(tpl, i - k, k) = Substr(tpl, i, k))

\* the two proposals at position i for repeat size k
Proposals(tpl, i, k) == {Insertion(i, Substr(tpl, i, k)), Deletion(i, k)}

\* RepeatMutations is switched off by its configuration
RepeatOff == arg.cfg.MaximumRepeatSize < 2 \/ arg.cfg.MinimumElementCount = 0

\* C13, as stated: the proposals are Insertion(i, tpl[i..i+k)) and
\* Deletion(i, k) for exactly the k in [2, MaximumRepeatSize] and the i that are
\* the first position of a run of at least MinimumElementCount adjacent
\* identical k-mers inside [start, end); none when MaximumRepeatSize < 2 or
\* MinimumElementCount = 0
C13_ProposalsAtRunStarts ==
    pc = "returned" =>
        IF RepeatOff THEN ret = <<>>
        ELSE Range(ret) =
                UNION {Proposals(arg.tpl, i, k) :
                          <<i, k>> \in {x \in (0..Len(arg.tpl)) \X (2..arg.cfg.MaximumRepeatSize) :
                              RunStart(arg.tpl, x[1], x[2], arg.start, arg.end,
                                       arg.cfg.MinimumElementCount)}}

\* the positions the scan for repeat size k looks at, from i on: after a
\* position where n > 1 copies begin it goes on behind the start of the last copy
RECURSIVE Scanned(_, _, _, _)
Scanned(tpl, k, i, end) ==
    IF i + k > end THEN {}
    ELSE {i} \cup Scanned(tpl, k,
                          IF CopiesAt(tpl, i, k, end) > 1
                          THEN i + k * (CopiesAt(tpl, i, k, end) - 1) + 1
                          ELSE i + 1,
                          end)

\* C13, amended: every proposal is a pair Insertion(i, tpl[i..i+k)),
\* Deletion(i, k), each made once, at a position where at least
\* MinimumElementCount adjacent copies of the k-mer begin inside [start, end);
\* the positions proposed are those among the scanned ones, the scan going
\* from start on and passing over the positions up to the start of the last
\* copy of a run it found; none when MaximumRepeatSize < 2 or
\* MinimumElementCount = 0
C13_ProposalsAtScannedPositions ==
    pc = "returned" =>
        IF RepeatOff THEN ret = <<>>
        ELSE /\ Range(ret) =
                   UNION {Proposals(arg.tpl, x[1], x[2]) :
                             x \in {y \in (0..Len(arg.tpl)) \X (2..arg.cfg.MaximumRepeatSize) :
                                 /\ y[1] \in Scanned(arg.tpl, y[2], arg.start, arg.end)
                                 /\ HasCopies(arg.tpl, y[1], y[2], arg.end,
                                              arg.cfg.MinimumElementCount)}}
             /\ Len(ret) = Cardinality(Range(ret))
             /\ \A n \in 1..(Len(ret) - 1) : ~SiteComparer(ret[n + 1], ret[n])

\* a run found at its first position, and behind it a run of the shifted
\* k-mer that the scan passed over
C13_Witness ==
    /\ pc = "returned"
    /\ ~RepeatOff
    /\ ret # <<>>
    /\ \E i \in 0..Len(arg.tpl), k \in 2..arg.cfg.MaximumRepeatSize :
          /\ RunStart(arg.tpl, i, k, arg.start, arg.end, arg.cfg.MinimumElementCount)
          /\ arg.cfg.MinimumElementCount >= 2
          /\ Proposals(arg.tpl, i, k) \cap Range(ret) = {}

-----------------------------------------------------------------------------
(* Polish.cpp: PolishRepeats *)

\* boost::none
NoMut == [type |-> "none"]

RepeatInputs ==
    [draft : {<<>>, <<"A", "A">>, <<"A", "C", "C", "A">>}, evals : EvaluatorCounts,
     MaximumIterations : {0, MaxRounds}, MaximumRepeatSize : {2},
     MinimumElementCount : {1, 2}]

\* the test of line 515, taking any candidate above the baseline
BeatsBaseline(ll, baseline, bestMut) == ll > baseline

\* the test of line 515
BeatsBest(ll, baseline, bestMut) ==
    ll > baseline /\ (bestMut = NoMut \/ bestMut.Score < ll)

\* lines 494-500: the state PolishRepeats starts in
InitPolishRepeats ==
    /\ pc = "repeat_for"
    /\ arg = <<>> /\ ret = <<>>
    /\ \E in \in RepeatInputs :
          /\ cfg = [MaximumIterations |-> in.MaximumIterations,
                    MaximumRepeatSize |-> in.MaximumRepeatSize,
                    MinimumElementCount |-> in.MinimumElementCount]
          /\ ai = [fwdTpl |-> in.draft, validEvals |-> in.evals, known |-> <<>>,
                   peaks |-> 0, thrown |-> 0, throws |-> MaxThrown]
          /\ polish = [muts |-> <<>>, bestMut |-> NoMut, mutationsTested |-> 0,
                       hasNewInvalidEvaluator |-> FALSE, LL |-> 0, it |-> 1, i |-> 0,
                       result |-> [hasConverged |-> FALSE, mutationsApplied |-> 0,
                                   mutationsTested |-> 0]]
          /\ obs = [pass |-> 0, scores |-> <<>>, tplAtRound |-> in.draft,
                    applyRounds |-> 0, applied |-> <<>>, noneBeat |-> FALSE]

\* line 502, condition true; lines 503-506
RepeatForRound ==
    /\ pc = "repeat_for"
    /\ polish.i < cfg.MaximumIterations
    /\ LET muts == RepeatMutations(ai.fwdTpl, cfg, 0, Len(ai.fwdTpl))
       IN  \E sorted \in SortedFrom(muts, DOMAIN muts) :
              polish' = [polish EXCEPT !.muts = sorted, !.bestMut = NoMut,
                                       !.mutationsTested = 0,
                                       !.hasNewInvalidEvaluator = FALSE]
    /\ obs' = [obs EXCEPT !.pass = 0, !.scores = <<>>, !.tplAtRound = ai.fwdTpl,
                          !.applied = <<>>]
    /\ pc' = "repeat_do"
    /\ UNCHANGED <<arg, ret, ai, cfg>>

\* line 502, condition false; line 538
RepeatForDone ==
    /\ pc = "repeat_for"
    /\ ~(polish.i < cfg.MaximumIterations)
    /\ pc' = "returned"
    /\ UNCHANGED <<arg, ret, ai, cfg, polish, obs>>

\* lines 509-512: the baseline of a scoring pass
RepeatDoPass ==
    /\ pc = "repeat_do"
    /\ \E ll \in LLValues(ai, ai.fwdTpl) :
          /\ ai' = Observed(ai, ai.fwdTpl, ll)
          /\ polish' = [polish EXCEPT !.LL = ll, !.hasNewInvalidEvaluator = FALSE,
                                      !.it = 1]
    /\ obs' = [obs EXCEPT !.scores = <<>>]
    /\ pc' = "repeat_score"
    /\ UNCHANGED <<arg, ret, cfg>>

\* lines 513-516: LL(mut) returns
RepeatScore ==
    /\ pc = "repeat_score"
    /\ polish.it <= Len(polish.muts)
    /\ LET mut == polish.muts[polish.it]
       IN  \E ll \in LLValues(ai, Mutated(ai.fwdTpl, mut)) :
              /\ ai' = Observed(ai, Mutated(ai.fwdTpl, mut), ll)
              /\ polish' = [polish EXCEPT
                     !.bestMut = IF BeatsBest(ll, polish.LL, polish.bestMut)
                                 THEN WithScore(mut, ll, obs.pass) ELSE @,
                     !.it = @ + 1]
              /\ obs' = [obs EXCEPT !.scores = Append(@, ll)]
    /\ UNCHANGED <<pc, arg, ret, cfg>>

\* LL(mut) of line 514 throws; lines 517-523
RepeatInvalidEvaluator ==
    /\ pc = "repeat_score"
    /\ polish.it <= Len(polish.muts)
    /\ ai.validEvals > 0
    /\ ai.thrown < ai.throws
    /\ ai' = Invalidated(ai)
    /\ polish' = [polish EXCEPT !.hasNewInvalidEvaluator = TRUE, !.bestMut = NoMut,
                                !.mutationsTested = 0]
    /\ obs' = [obs EXCEPT !.pass = @ + 1]
    /\ pc' = "repeat_do"
    /\ UNCHANGED <<arg, ret, cfg>>

\* lines 523-525: the pass ended without exception
RepeatEndPass ==
    /\ pc = "repeat_score"
    /\ polish.it > Len(polish.muts)
    /\ polish' = [polish EXCEPT !.result.mutationsTested = @ + polish.mutationsTested]
    /\ pc' = "repeat_select"
    /\ UNCHANGED <<arg, ret, ai, cfg, obs>>

\* lines 527-530
RepeatConverge ==
    /\ pc = "repeat_select"
    /\ polish.bestMut = NoMut
    /\ polish' = [polish EXCEPT !.result.hasConverged = TRUE]
    /\ obs' = [obs EXCEPT !.noneBeat = TRUE]
    /\ pc' = "returned"
    /\ UNCHANGED <<arg, ret, ai, cfg>>

\* lines 532-535 and ++i
RepeatApply ==
    /\ pc = "repeat_select"
    /\ polish.bestMut # NoMut
    /\ LET mut == <<Mutation(polish.bestMut)>>
       IN  \E sorted \in SiteSorted(mut) :
              /\ ai' = [ai EXCEPT !.fwdTpl = ApplyMutations(ai.fwdTpl, sorted)]
              /\ obs' = [obs EXCEPT !.applied = sorted, !.applyRounds = @ + 1]
    /\ polish' = [polish EXCEPT !.result.mutationsApplied = @ + 1, !.i = @ + 1]
    /\ pc' = "repeat_for"
    /\ UNCHANGED <<arg, ret, cfg>>

NextPolishRepeats ==
    \/ RepeatForRound \/ RepeatForDone \/ RepeatDoPass
    \/ RepeatScore \/ RepeatInvalidEvaluator \/ RepeatEndPass
    \/ RepeatConverge \/ RepeatApply

SpecPolishRepeats == InitPolishRepeats /\ [][NextPolishRepeats]_vars

-----------------------------------------------------------------------------
(* Claims: PolishRepeats *)

\* the candidates of the final pass that scored strictly above its baseline
AboveBaseline == {k \in 1..Len(obs.scores) : obs.scores[k] > polish.LL}

\* C14: a round of PolishRepeats applies one mutation at most, the candidate
\* with the highest LL among those strictly above the baseline of the final
\* pass; PolishRepeats returns hasConverged true from the first round in which
\* no candidate beats the baseline; mutationsApplied counts the rounds that
\* applied a mutation and is at most MaximumIterations
C14_SingleBestPerRound ==
    /\ Len(obs.applied) <= 1
    /\ polish.result.mutationsApplied = obs.applyRounds
    /\ polish.result.mutationsApplied <= polish.i
    /\ polish.i <= cfg.MaximumIterations
    /\ pc = "repeat_select" =>
          /\ Len(obs.scores) = Len(polish.muts)
          /\ IF AboveBaseline = {} THEN polish.bestMut = NoMut
             ELSE \E k \in AboveBaseline :
                     /\ Mutation(polish.bestMut) = polish.muts[k]
                     /\ polish.bestMut.Score = obs.scores[k]
                     /\ \A j \in AboveBaseline : obs.scores[j] <= obs.scores[k]
    /\ (pc = "repeat_for" /\ obs.applied # <<>>) =>
          /\ AboveBaseline # {}
          /\ obs.applied = <<Mutation(polish.bestMut)>>
          /\ ai.fwdTpl = Mutated(obs.tplAtRound, obs.applied[1])
    /\ polish.result.hasConverged <=> obs.noneBeat
    /\ polish.result.hasConverged =>
          /\ pc = "returned"
          /\ AboveBaseline = {}
          /\ obs.applied = <<>>
          /\ ai.fwdTpl = obs.tplAtRound
          /\ polish.result.mutationsApplied = polish.i
          /\ polish.i < cfg.MaximumIterations
    /\ (pc = "returned" /\ ~polish.result.hasConverged) =>
          polish.result.mutationsApplied = cfg.MaximumIterations

\* a round applied the best of two candidates above the baseline, the better
\* one scored first
C14_Witness ==
    /\ pc = "repeat_for"
    /\ obs.applied # <<>>
    /\ Cardinality(AboveBaseline) >= 2
    /\ \E j, k \in AboveBaseline : j < k /\ obs.scores[k] < obs.scores[j]

\* PolishRepeats converged in its second round
C14_WitnessConverged ==
    /\ pc = "returned"
    /\ polish.result.hasConverged
    /\ polish.result.mutationsApplied = 1

-----------------------------------------------------------------------------
(* Polish.cpp: ConsensusQVs *)

MaxQVLen == 2   \* longest template handed to ConsensusQVs

\* exp(score) for score = -1, -2, ..., in thousandths
ExpTable == <<368, 135, 50, 18, 7, 2, 1>>

\* exp(score) of line 627, score < 0, in thousandths
Exp(score) == ExpTable[-score]

\* 10^(-(q + 0.5) / 10) for q = 0, 1, ..., in hundred-thousandths: the
\* probabilities at which round(-10 * log10(probability)) steps from q + 1 to q
QVSteps ==
    <<89125, 70795, 56234, 44668, 35481, 28184, 22387, 17783, 14125, 11220,
      8913, 7079, 5623, 4467, 3548, 2818, 2239, 1778, 1413, 1122,
      891, 708, 562, 447, 355, 282, 224, 178, 141, 112, 89>>

\* round(-10 * log10(numeric_limits<double>::min())), line 546
QVOfZero == 3077

\* ScoreSumToQV, lines 541-554, on a score sum in thousandths: the
\* probability is scoreSum / (1 + scoreSum)
ScoreSumToQV(scoreSum) ==
    IF scoreSum = 0 THEN QVOfZero
    ELSE LET reached == {q \in 1..Len(QVSteps) :
                            100000 * scoreSum > QVSteps[q] * (1000 + scoreSum)}
         IN  (CHOOSE q \in reached : \A r \in reached : q <= r) - 1

\* the test of line 608, never skipping
StartsBeyondNever(m, i) == FALSE

\* the test of line 608
StartsBeyond(m, i) == Start(m) > i

NoSums == [qual |-> 0, del |-> 0, ins |-> 0, sub |-> 0]

\* lines 625-634: the four sums after m scored score < 0
Accumulate(sums, m, score) ==
    [qual |-> sums.qual + Exp(score),
     del |-> sums.del + (IF IsDeletion(m) THEN Exp(score) ELSE 0),
     ins |-> sums.ins + (IF ~IsDeletion(m) /\ Start(m) = End(m) THEN Exp(score) ELSE 0),
     sub |-> sums.sub + (IF ~IsDeletion(m) /\ Start(m) # End(m) THEN Exp(score) ELSE 0)]

\* lines 595-603
InitQVs ==
    /\ pc = "qv_begin"
    /\ arg = <<>> /\ ret = <<>>
    /\ cfg = <<>>
    /\ \E tpl \in Strings(MaxQVLen), n \in EvaluatorCounts :
          ai = [fwdTpl |-> tpl, validEvals |-> n, known |-> <<>>, peaks |-> 0,
                thrown |-> 0, throws |-> MaxThrown]
    /\ polish = [len |-> 0, LL |-> 0, i |-> 0, muts |-> <<>>, it |-> 1, sums |-> NoSums,
                 quals |-> <<>>, delQVs |-> <<>>, insQVs |-> <<>>, subQVs |-> <<>>]
    /\ obs = [sums |-> <<>>, contributing |-> <<>>, site |-> <<>>,
              baseline |-> 0, delta |-> <<>>]

\* lines 595-603: len and the baseline
QVBegin ==
    /\ pc = "qv_begin"
    /\ \E ll \in LLValues(ai, ai.fwdTpl) :
          /\ ai' = Observed(ai, ai.fwdTpl, ll)
          /\ polish' = [polish EXCEPT !.len = Len(ai.fwdTpl), !.LL = ll]
    /\ obs' = [obs EXCEPT !.baseline = ai.validEvals]
    /\ pc' = "qv_for"
    /\ UNCHANGED <<arg, ret, cfg>>

\* line 604, condition true; lines 605-606
QVSite ==
    /\ pc = "qv_for"
    /\ polish.i < polish.len
    /\ polish' = [polish EXCEPT !.sums = NoSums,
                                !.muts = Mutations(ai.fwdTpl, polish.i, polish.i + 1, FALSE),
                                !.it = 1]
    /\ obs' = [obs EXCEPT !.site = <<>>]
    /\ pc' = "qv_score"
    /\ UNCHANGED <<arg, ret, ai, cfg>>

\* line 608: the candidate starts beyond the site
QVSkip ==
    /\ pc = "qv_score"
    /\ polish.it <= Len(polish.muts)
    /\ StartsBeyond(polish.muts[polish.it], polish.i)
    /\ polish' = [polish EXCEPT !.it = @ + 1]
    /\ UNCHANGED <<pc, arg, ret, ai, cfg, obs>>

\* lines 613-634: LL(m) returns
QVScore ==
    /\ pc = "qv_score"
    /\ polish.it <= Len(polish.muts)
    /\ LET m == polish.muts[polish.it]
       IN  /\ ~StartsBeyond(m, polish.i)
           /\ \E ll \in LLValues(ai, Mutated(ai.fwdTpl, m)) :
                 LET score == ll - polish.LL
                 IN  /\ ai' = Observed(ai, Mutated(ai.fwdTpl, m), ll)
                     /\ polish' = [polish EXCEPT
                            !.sums = IF score >= 0 THEN @ ELSE Accumulate(@, m, score),
                            !.it = @ + 1]
                     /\ obs' = [obs EXCEPT
                            !.site = IF score >= 0 THEN @
                                     ELSE Append(@, [m |-> m, score |-> score]),
                            !.delta = [m |-> m, score |-> score,
                                       evals |-> ai.validEvals]]
    /\ UNCHANGED <<pc, arg, ret, cfg>>

\* LL(m) of line 615 throws; lines 616-622
QVInvalidEvaluator ==
    /\ pc = "qv_score"
    /\ polish.it <= Len(polish.muts)
    /\ ~StartsBeyond(polish.muts[polish.it], polish.i)
    /\ ai.validEvals > 0
    /\ ai.thrown < ai.throws
    /\ ai' = Invalidated(ai)
    /\ polish' = [polish EXCEPT !.it = @ + 1]
    /\ UNCHANGED <<pc, arg, ret, cfg, obs>>

\* lines 636-639 and ++i
QVEmit ==
    /\ pc = "qv_score"
    /\ polish.it > Len(polish.muts)
    /\ polish' = [polish EXCEPT
           !.quals = Append(@, ScoreSumToQV(polish.sums.qual)),
           !.delQVs = Append(@, ScoreSumToQV(polish.sums.del)),
           !.insQVs = Append(@, ScoreSumToQV(polish.sums.ins)),
           !.subQVs = Append(@, ScoreSumToQV(polish.sums.sub)),
           !.i = @ + 1]
    /\ obs' = [obs EXCEPT !.sums = Append(@, polish.sums),
                          !.contributing = Append(@, obs.site)]
    /\ pc' = "qv_for"
    /\ UNCHANGED <<arg, ret, ai, cfg>>

\* line 604, condition false; line 642
QVReturn ==
    /\ pc = "qv_for"
    /\ ~(polish.i < polish.len)
    /\ ret' = [Qualities |-> polish.quals, DeletionQVs |-> polish.delQVs,
               InsertionQVs |-> polish.insQVs, SubstitutionQVs |-> polish.subQVs]
    /\ pc' = "returned"
    /\ UNCHANGED <<arg, ai, cfg, polish, obs>>

NextQVs ==
    \/ QVBegin \/ QVSite \/ QVSkip \/ QVScore \/ QVInvalidEvaluator \/ QVEmit
    \/ QVReturn

SpecQVs == InitQVs /\ [][NextQVs]_vars

-----------------------------------------------------------------------------
(* Claims: ConsensusQVs *)

RECURSIVE SumExp(_, _)
\* the sum of exp(score) over the first n entries of a list of contributions
SumExp(contributions, n) ==
    IF n = 0 THEN 0 ELSE SumExp(contributions, n - 1) + Exp(contributions[n].score)

\* the contributions of one class, in their order
OfClass(contributions, class) ==
    LET InClass(c) ==
            CASE class = "deletion" -> IsDeletion(c.m)
              [] class = "insertion" -> IsInsertion(c.m)
              [] class = "substitution" -> IsSubstitution(c.m)
    IN  SelectSeq(contributions, InClass)

\* C15: ConsensusQVs returns four arrays of TemplateLength entries; at
\* position i only candidates that start at i contribute, each with a negative
\* LL delta, to the overall sum and to the one sum of its kind, so that the
\* overall sum is the sum of the deletion, insertion and substitution sums
C15_QVsPartitioned ==
    /\ Len(polish.quals) = polish.i
    /\ Len(polish.delQVs) = polish.i
    /\ Len(polish.insQVs) = polish.i
    /\ Len(polish.subQVs) = polish.i
    /\ pc = "returned" =>
          \A qvs \in {ret.Qualities, ret.DeletionQVs, ret.InsertionQVs,
                      ret.SubstitutionQVs} : Len(qvs) = Len(ai.fwdTpl)
    /\ \A k \in 1..Len(obs.sums) :
          LET sums == obs.sums[k]
              contributions == obs.contributing[k]
              dels == OfClass(contributions, "deletion")
              inss == OfClass(contributions, "insertion")
              subs == OfClass(contributions, "substitution")
          IN  /\ \A n \in 1..Len(contributions) :
                    /\ Start(contributions[n].m) = k - 1
                    /\ contributions[n].score < 0
              /\ sums.qual = SumExp(contributions, Len(contributions))
              /\ sums.del = SumExp(dels, Len(dels))
              /\ sums.ins = SumExp(inss, Len(inss))
              /\ sums.sub = SumExp(subs, Len(subs))
              /\ Len(dels) + Len(inss) + Len(subs) = Len(contributions)
              /\ sums.qual = sums.del + sums.ins + sums.sub
              /\ polish.quals[k] = ScoreSumToQV(sums.qual)
              /\ polish.delQVs[k] = ScoreSumToQV(sums.del)
              /\ polish.insQVs[k] = ScoreSumToQV(sums.ins)
              /\ polish.subQVs[k] = ScoreSumToQV(sums.sub)

\* ConsensusQVs returned for a template of two bases, a deletion, an insertion
\* and a substitution having contributed at the last position
C15_Witness ==
    /\ pc = "returned"
    /\ Len(ai.fwdTpl) = 2
    /\ obs.sums[2].del > 0 /\ obs.sums[2].ins > 0 /\ obs.sums[2].sub > 0
    /\ ret.Qualities[2] < ret.DeletionQVs[2]

-----------------------------------------------------------------------------
(* Claims: the MutationTracker in Polish *)

\* the template after the first n recorded batches are applied to tpl in turn
RECURSIVE Replay(_, _, _)
Replay(tpl, batches, n) ==
    IF n = 0 THEN tpl
    ELSE ApplyMutations(Replay(tpl, batches, n - 1), batches[n])

\* C16, as stated: in diploid mode the batch recorded in the MutationTracker
\* in a round is the list of mutations applied to the template in that round,
\* and replaying the recorded batches on the original draft gives the
\* Integrator's current template
C16_TrackerReplaysTemplate ==
    (cfg.Diploid /\ pc \in {"for", "do", "score", "select", "returned"}) =>
        /\ Len(polish.mutTracker.batches) = polish.i
        /\ polish.i > 0 =>
              polish.mutTracker.batches[polish.i] = obs.last.applied
        /\ Replay(polish.mutTracker.tpl, polish.mutTracker.batches,
                  Len(polish.mutTracker.batches)) = ai.fwdTpl

\* the second half of C16 alone: replaying the recorded batches on the original
\* draft gives the current template
TrackerReplay ==
    (cfg.Diploid /\ pc = "for") =>
        Replay(polish.mutTracker.tpl, polish.mutTracker.batches,
               Len(polish.mutTracker.batches)) = ai.fwdTpl

-----------------------------------------------------------------------------
(* Claims: the candidates of the round after the cycle guard *)

\* polish.muts holds the candidates NearbyMutations made for the next round
Reseeded == pc \in {"for", "do", "score"} /\ obs.last.applied # <<>>

\* the sum of LengthDiff over the first n mutations of applied that end at or
\* before the start of center
RECURSIVE ShiftOf(_, _, _)
ShiftOf(applied, center, n) ==
    IF n = 0 THEN 0
    ELSE ShiftOf(applied, center, n - 1)
         + (IF End(applied[n]) <= Start(center) THEN LengthDiff(applied[n]) ELSE 0)

\* the positions of the new template within neighborhood of center, a
\* mutation in the coordinates of the template before applied was applied
Near(center, applied, neighborhood, len) ==
    LET shift == ShiftOf(applied, center, Len(applied))
    IN  Clamp(len, shift + Start(center) - neighborhood)
           ..Clamp(len, shift + End(center) + neighborhood)

-----------------------------------------------------------------------------
(* Polish.cpp: NearbyMutations, called on its own *)

MaxNearLen == 5        \* longest template before the applied mutations
MaxCenters == 3        \* most centers in one call
MaxNeighborhood == 1   \* largest neighborhood

\* a template without homopolymers
NearTemplate(n) == [k \in 1..n |-> IF k % 2 = 1 THEN "A" ELSE "C"]

\* the single-base mutations of a template of length n
NearSites(n) ==
    {Insertion(p, <<"A">>) : p \in 0..n}
    \cup {Deletion(p, 1) : p \in 0..(n - 1)}
    \cup {Substitution(p, <<"A">>) : p \in 0..(n - 1)}

\* the elements of muts at the indices in S, in their order
RECURSIVE PickAt(_, _, _)
PickAt(muts, S, n) ==
    IF n = 0 THEN <<>>
    ELSE PickAt(muts, S, n - 1) \o (IF n \in S THEN <<muts[n]>> ELSE <<>>)

\* lengthDiff as each center from cit on sees it, lines 228-239
RECURSIVE Offsets(_, _, _, _, _)
Offsets(applied, centers, cit, ait, lengthDiff) ==
    IF cit > Len(centers) THEN <<>>
    ELSE LET adv == AdvanceApplied(applied, ait, lengthDiff, centers[cit])
         IN  <<adv[2]>> \o Offsets(applied, centers, cit + 1, adv[1], adv[2])

\* the centers are mutations of one template that do not overlap, in any
\* order; applied are some of them, and the Integrator holds the template with
\* these applied
InitNearby ==
    /\ pc = "NearbyMutations"
    /\ \E n \in 0..MaxNearLen, k \in 0..MaxCenters, neighborhood \in 0..MaxNeighborhood :
          \E centers \in [1..k -> NearSites(n)] : \E A \in SUBSET (1..k) :
              /\ NonOverlapping(centers)
              /\ arg = [applied |-> PickAt(centers, A, k), centers |-> centers,
                        oldTpl |-> NearTemplate(n), neighborhood |-> neighborhood]
    /\ ret = <<>>
    /\ NoPolish

\* NearbyMutations(&applied, &centers, ai, neighborhood, false), lines 203-256;
\* the sorts of lines 214-215 reorder the caller's vectors
CallNearbyMutations ==
    /\ pc = "NearbyMutations"
    /\ \E applied \in SortedFrom(arg.applied, DOMAIN arg.applied) :
       \E centers \in SortedFrom(arg.centers, DOMAIN arg.centers) :
          LET tpl == ApplyMutations(arg.oldTpl, applied)
          IN  ret' = [applied |-> applied,
                      centers |-> centers,
                      len |-> Len(tpl),
                      offsets |-> Offsets(applied, centers, 1, 1, 0),
                      ranges |-> IF centers = <<>> THEN <<>>
                                 ELSE RangesOf(applied, centers, Len(tpl),
                                               arg.neighborhood),
                      muts |-> NearbyMutations(applied, centers, tpl,
                                               arg.neighborhood, FALSE)]
    /\ pc' = "returned"
    /\ UNCHANGED <<arg, polishVars>>

NextNearby == CallNearbyMutations

SpecNearby == InitNearby /\ [][NextNearby]_vars

-----------------------------------------------------------------------------
(* Claims about NearbyMutations *)

NearbyReturned == pc = "returned" /\ "offsets" \in DOMAIN ret

\* C18, as stated: the offset of a center's interval is the sum of LengthDiff
\* over the applied mutations that lie wholly in front of the center; the
\* center's own LengthDiff is never part of it
C18_OffsetExcludesCenter ==
    NearbyReturned =>
        \A k \in 1..Len(ret.centers) :
            ret.offsets[k] = ShiftBefore(ret.applied, ret.centers[k], Len(ret.applied))

\* the offset of a center's interval does hold the LengthDiff of the applied
\* mutations that end at or before its start, the center included
NearbyOffsets ==
    NearbyReturned =>
        \A k \in 1..Len(ret.centers) :
            ret.offsets[k] = ShiftOf(ret.applied, ret.centers[k], Len(ret.applied))

\* C19, as stated: the intervals lie within [0, TemplateLength], ascend and do
\* not touch one another, so no candidate is generated twice
C19_RangesDisjoint ==
    NearbyReturned =>
        /\ \A k \in 1..Len(ret.ranges) :
              0 <= ret.ranges[k][1] /\ ret.ranges[k][1] <= ret.ranges[k][2]
              /\ ret.ranges[k][2] <= ret.len
        /\ \A k \in 1..(Len(ret.ranges) - 1) : ret.ranges[k][2] < ret.ranges[k + 1][1]
        /\ \A i, j \in 1..Len(ret.muts) : i # j => ret.muts[i] # ret.muts[j]

\* the part of C19 that holds: the intervals lie within the template and
\* their starts ascend
NearbyRangesWithin ==
    NearbyReturned =>
        /\ \A k \in 1..Len(ret.ranges) :
              0 <= ret.ranges[k][1] /\ ret.ranges[k][1] <= ret.ranges[k][2]
              /\ ret.ranges[k][2] <= ret.len
        /\ \A k \in 1..(Len(ret.ranges) - 1) : ret.ranges[k][1] <= ret.ranges[k + 1][1]

-----------------------------------------------------------------------------
(* Claims about the cycle-detection history *)

\* C20, as stated: the history never holds more than MaximumIterations
\* fingerprints
C20_HistoryAtMostIterations ==
    Cardinality(polish.history) <= cfg.MaximumIterations

\* C20, amended: the history holds the fingerprint of the draft and at most
\* one more for each round that applied mutations, so never more than
\* MaximumIterations + 1
C20_HistoryAtMostIterationsPlusDraft ==
    /\ hashFn(polish.mutTracker.tpl) \in polish.history
    /\ Cardinality(polish.history) <= polish.i + 1
    /\ Cardinality(polish.history) <= cfg.MaximumIterations + 1

\* every round added a fingerprint to the draft's
C20_Witness ==
    /\ pc = "returned"
    /\ cfg.MaximumIterations = MaxRounds
    /\ Cardinality(polish.history) = MaxRounds + 1

-----------------------------------------------------------------------------
(* Polish.cpp: ConsensusQualities on the Integrator that Polish leaves *)

\* the runs of Polish that are followed by ConsensusQualities
PolishedInputs ==
    SmallInputs
    \cup
    [draft : {<<"A", "C", "A">>}, evals : {1}, throws : {0},
     MaximumIterations : {MaxRounds},
     MutationSeparation : {1}, MutationNeighborhood : {1}, Diploid : {FALSE}]

InitPolished == \E in \in PolishedInputs : PolishOn(in)

\* lines 562-564 on the Integrator of a haploid Polish that converged: the
\* baseline; result is what Polish returned
QualsBegin ==
    /\ pc = "returned"
    /\ polish.result.hasConverged /\ ~cfg.Diploid
    /\ \E ll \in LLValues(ai, ai.fwdTpl) :
          /\ ai' = Observed(ai, ai.fwdTpl, ll)
          /\ polish' = [result |-> polish.result, LL |-> ll, i |-> 0, muts |-> <<>>,
                        it |-> 1, scoreSum |-> 0, quals |-> <<>>]
    /\ obs' = [baseline |-> ai.validEvals, delta |-> <<>>, last |-> obs.last]
    /\ pc' = "quals_for"
    /\ UNCHANGED <<arg, ret, cfg>>

\* line 565, condition true; lines 566-567
QualsSite ==
    /\ pc = "quals_for"
    /\ polish.i < Len(ai.fwdTpl)
    /\ polish' = [polish EXCEPT !.scoreSum = 0,
                                !.muts = Mutations(ai.fwdTpl, polish.i, polish.i + 1, FALSE),
                                !.it = 1]
    /\ pc' = "quals_score"
    /\ UNCHANGED <<arg, ret, ai, cfg, obs>>

\* line 569: the candidate starts beyond the site
QualsSkip ==
    /\ pc = "quals_score"
    /\ polish.it <= Len(polish.muts)
    /\ StartsBeyond(polish.muts[polish.it], polish.i)
    /\ polish' = [polish EXCEPT !.it = @ + 1]
    /\ UNCHANGED <<pc, arg, ret, ai, cfg, obs>>

\* lines 574-586: LL(m) returns; the assertion of line 584 ends the program
\* in a build without NDEBUG
QualsScore ==
    /\ pc = "quals_score"
    /\ polish.it <= Len(polish.muts)
    /\ LET m == polish.muts[polish.it]
       IN  /\ ~StartsBeyond(m, polish.i)
           /\ \E ll \in LLValues(ai, Mutated(ai.fwdTpl, m)) : \E ndebug \in BOOLEAN :
                 LET score == ll - polish.LL
                 IN  /\ ai' = Observed(ai, Mutated(ai.fwdTpl, m), ll)
                     /\ obs' = [obs EXCEPT !.delta = [m |-> m, score |-> score,
                                                      evals |-> ai.validEvals]]
                     /\ IF AssertHolds(ndebug, score <= 0)
                        THEN /\ polish' = [polish EXCEPT
                                    !.scoreSum = IF score < 0 THEN @ + Exp(score) ELSE @,
                                    !.it = @ + 1]
                             /\ pc' = pc
                        ELSE /\ polish' = polish
                             /\ pc' = "quals_abort"
    /\ UNCHANGED <<arg, ret, cfg>>

\* LL(m) of line 575 throws; lines 576-583
QualsInvalidEvaluator ==
    /\ pc = "quals_score"
    /\ polish.it <= Len(polish.muts)
    /\ ~StartsBeyond(polish.muts[polish.it], polish.i)
    /\ ai.validEvals > 0
    /\ ai.thrown < ai.throws
    /\ ai' = Invalidated(ai)
    /\ polish' = [polish EXCEPT !.it = @ + 1]
    /\ UNCHANGED <<pc, arg, ret, cfg, obs>>

\* line 588 and ++i
QualsEmit ==
    /\ pc = "quals_score"
    /\ polish.it > Len(polish.muts)
    /\ polish' = [polish EXCEPT !.quals = Append(@, ScoreSumToQV(polish.scoreSum)),
                                !.i = @ + 1]
    /\ pc' = "quals_for"
    /\ UNCHANGED <<arg, ret, ai, cfg, obs>>

\* line 565, condition false; line 590
QualsReturn ==
    /\ pc = "quals_for"
    /\ ~(polish.i < Len(ai.fwdTpl))
    /\ ret' = polish.quals
    /\ pc' = "quals_returned"
    /\ UNCHANGED <<arg, ai, cfg, polish, obs>>

NextQualities ==
    \/ QualsBegin \/ QualsSite \/ QualsSkip \/ QualsScore \/ QualsInvalidEvaluator
    \/ QualsEmit \/ QualsReturn

NextPolished == NextPolish \/ NextQualities

SpecPolished == InitPolished /\ [][NextPolished]_vars

-----------------------------------------------------------------------------
(* Claims: the template Polish converged on, scored by ConsensusQualities *)

\* ConsensusQualities formed a score delta from two likelihoods over the same
\* valid Evaluators
Scored ==
    /\ pc \in {"quals_score", "quals_for", "quals_returned", "quals_abort"}
    /\ obs.delta # <<>>
    /\ obs.delta.evals = obs.baseline

\* C21, as stated: on the template a haploid Polish converged on, no
\* candidate of the candidate generator scores above LL() over the Evaluators
\* LL() was taken over, so the assertion score <= 0 of ConsensusQualities does
\* not fail on such a candidate
C21_ConvergedTemplateIsBest == Scored => obs.delta.score <= 0

\* what does hold: when Polish converged in its first round, which scores
\* every candidate of the template, no candidate scores above LL()
FirstRoundConvergedIsBest ==
    (Scored /\ polish.result.mutationsApplied = 0) => obs.delta.score <= 0

-----------------------------------------------------------------------------
(* Claims: the Evaluators behind a score delta *)

\* C22, as stated: every score delta LL(m) - LL of ConsensusQVs is formed from
\* two likelihoods over the same valid Evaluators, also after an LL(m) of the
\* traversal threw
C22_DeltaOverSameEvaluators ==
    obs.delta # <<>> => obs.delta.evals = obs.baseline

\* what does hold: until an LL(m) of the traversal throws, LL(m) and LL are
\* taken over the same valid Evaluators
DeltaOverSameEvaluatorsUntilThrow ==
    (obs.delta # <<>> /\ ai.thrown = 0) => obs.delta.evals = obs.baseline

=============================================================================
